---- MODULE Spec2Model ----
(***************************************************************************)
(* Model of src/slack_bot.py: the app_mention handler handle_mention, its  *)
(* two threading.Timer callbacks send_ephemeral and send_placeholder, and  *)
(* the Slack channel they write to.                                        *)
(*                                                                         *)
(* Every invocation of handle_mention runs in its own thread and owns its  *)
(* closure cells done["flag"] and placeholder["ts"]; the two timers run    *)
(* the callbacks in two more threads.  One step of the model is one        *)
(* statement (or one transport call) of one thread.  A transport call      *)
(* either succeeds, with its effect on the channel, or raises.             *)
(*                                                                         *)
(* Time is a clock of whole seconds.  A timer callback starts at any time  *)
(* at or after the time its delay elapses, and a thread takes its next     *)
(* step at any later time: the interpreter promises no latency.            *)
(***************************************************************************)
EXTENDS Integers, Sequences, FiniteSets, TLC

\* ---------------------------------------------------------------- bounds
MaxRequests == 2        \* handler invocations the model has room for
MaxTime == 6            \* the clock stops after this many seconds
MaxRuns == 2            \* executions of lines 225-240 on one delivery state

\* ------------------------------------------------------ program constants
EPHEMERAL_DELAY_SEC == 5
PLACEHOLDER_DELAY_SEC == 1

Reqs == 1..MaxRequests

\* Mention texts: one per branch of smalltalk_reply, and one real question.
Texts == {"hello", "thanks", "help", "status", "how do i reset my password"}

\* smalltalk_reply (lines 76-96): the reply of the first matching pattern,
\* the empty string when none matches.
smalltalk_reply(user_text) ==
    CASE user_text = "hello"  -> "Hi! I can help with questions about our docs."
      [] user_text = "thanks" -> "You're welcome! Glad it helped."
      [] user_text = "help"   -> "I answer questions using our internal docs."
      [] user_text = "status" -> "Online and ready."
      [] OTHER                -> ""

VARIABLES
    clock,          \* seconds since the process started
    ephDelay,       \* the delay send_ephemeral's timer is started with
    phDelay,        \* the delay send_placeholder's timer is started with
    msgs,           \* the public messages of the channel; a message's ts is its index
    text,           \* evt["text"] of each request
    channel,        \* whether evt["channel"] is present
    user,           \* whether evt["user"] is present
    pc,             \* position of the handler thread of each request
    done,           \* done["flag"]
    placeholder,    \* placeholder["ts"]; 0 is None
    final_text,     \* "none" until ask() returned or raised
    tEph,           \* position of the send_ephemeral timer thread
    tPh,            \* position of the send_placeholder timer thread
    res,            \* res["ts"] of send_placeholder's say; 0 before the call returned
    ephDue,         \* the time at which the send_ephemeral timer elapses
    phDue,          \* the time at which the send_placeholder timer elapses
    resolveTime,    \* the time at which ask() returned or raised
    doneTime,       \* the time at which done["flag"] was set
    runs,           \* how often lines 225-240 were entered
    ts_read,        \* what line 228 read from placeholder["ts"]; -1 before it ran
    log             \* the transport calls of each request, in order, with their outcome

vars == <<clock, ephDelay, phDelay, msgs, text, channel, user, pc, done,
          placeholder, final_text, tEph, tPh, res, ephDue, phDue,
          resolveTime, doneTime, runs, ts_read, log>>

config == <<ephDelay, phDelay>>
inputs == <<text, channel, user>>
timers == <<tEph, tPh, res, ephDue, phDue>>
stamps == <<resolveTime, doneTime, runs, ts_read>>

\* A public message: who it was posted for, the thread it is in (0 is the
\* channel timeline, otherwise the request whose mention is the thread
\* root), and its text.
Msg(r, th, t) == [req |-> r, thread |-> th, text |-> t]

Call(o, k) == [op |-> o, ok |-> k]

\* The outcomes a transport call can have: it returns or it raises, and
\* every call site catches what it raises.  Without a channel id (channel
\* is None) the call cannot be addressed and raises.
Outcomes(r) == IF channel[r] THEN BOOLEAN ELSE {FALSE}

\* ------------------------------------------------------------------ Init
InitOf(arrived) ==
    /\ clock = 0
    /\ ephDelay \in {0, EPHEMERAL_DELAY_SEC}
    /\ phDelay \in {0, PLACEHOLDER_DELAY_SEC}
    /\ msgs = <<>>
    /\ text \in [Reqs -> Texts]
    /\ channel \in [Reqs -> BOOLEAN]
    /\ user \in [Reqs -> BOOLEAN]
    /\ \A r \in Reqs \ arrived :
          text[r] = "hello" /\ channel[r] /\ user[r]
    /\ pc = [r \in Reqs |-> IF r \in arrived THEN "recv" ELSE "idle"]
    /\ done = [r \in Reqs |-> FALSE]
    /\ placeholder = [r \in Reqs |-> 0]
    /\ final_text = [r \in Reqs |-> "none"]
    /\ tEph = [r \in Reqs |-> "unarmed"]
    /\ tPh = [r \in Reqs |-> "unarmed"]
    /\ res = [r \in Reqs |-> 0]
    /\ ephDue = [r \in Reqs |-> 0]
    /\ phDue = [r \in Reqs |-> 0]
    /\ resolveTime = [r \in Reqs |-> 0]
    /\ doneTime = [r \in Reqs |-> 0]
    /\ runs = [r \in Reqs |-> 0]
    /\ ts_read = [r \in Reqs |-> -1]
    /\ log = [r \in Reqs |-> <<>>]

\* One mention event is being handled.
Init == InitOf({1})

\* --------------------------------------------------------- handler thread
\* Lines 167-187: read the event, take the smalltalk fast path or create
\* the delivery state of the long-running flow.
Receive(r) ==
    /\ pc[r] = "recv"
    /\ IF smalltalk_reply(text[r]) # "" /\ channel[r] /\ user[r]
          THEN /\ pc' = [pc EXCEPT ![r] = "smalltalk"]
               /\ UNCHANGED <<done, placeholder>>
          ELSE /\ pc' = [pc EXCEPT ![r] = "start_eph"]
               /\ done' = [done EXCEPT ![r] = FALSE]
               /\ placeholder' = [placeholder EXCEPT ![r] = 0]
    /\ UNCHANGED <<clock, config, msgs, inputs, final_text, timers, stamps, log>>

\* SmalltalkSay as it would be without the return of line 183: the handler
\* goes on into the long-running flow.
SmalltalkSayFallsThrough(r) ==
    /\ pc[r] = "smalltalk"
    /\ \E ok \in Outcomes(r) :
          /\ msgs' = IF ok THEN Append(msgs, Msg(r, 0, "smalltalk")) ELSE msgs
          /\ log' = [log EXCEPT ![r] = Append(@, Call("smalltalk", ok))]
    /\ pc' = [pc EXCEPT ![r] = "start_eph"]
    /\ UNCHANGED <<clock, config, inputs, done, placeholder, final_text, timers, stamps>>

\* Lines 178-183: one in-channel post, then return.
SmalltalkSay(r) ==
    /\ pc[r] = "smalltalk"
    /\ \E ok \in Outcomes(r) :
          /\ msgs' = IF ok THEN Append(msgs, Msg(r, 0, "smalltalk")) ELSE msgs
          /\ log' = [log EXCEPT ![r] = Append(@, Call("smalltalk", ok))]
    /\ pc' = [pc EXCEPT ![r] = "returned"]
    /\ UNCHANGED <<clock, config, inputs, done, placeholder, final_text, timers, stamps>>

\* Line 215: threading.Timer(EPHEMERAL_DELAY_SEC, send_ephemeral).start()
StartEphemeralTimer(r) ==
    /\ pc[r] = "start_eph"
    /\ tEph' = [tEph EXCEPT ![r] = "waiting"]
    /\ ephDue' = [ephDue EXCEPT ![r] = clock + ephDelay]
    /\ pc' = [pc EXCEPT ![r] = "start_ph"]
    /\ UNCHANGED <<clock, config, msgs, inputs, done, placeholder, final_text,
                   tPh, res, phDue, stamps, log>>

\* Line 216: threading.Timer(PLACEHOLDER_DELAY_SEC, send_placeholder).start()
StartPlaceholderTimer(r) ==
    /\ pc[r] = "start_ph"
    /\ tPh' = [tPh EXCEPT ![r] = "waiting"]
    /\ phDue' = [phDue EXCEPT ![r] = clock + phDelay]
    /\ pc' = [pc EXCEPT ![r] = "ask"]
    /\ UNCHANGED <<clock, config, msgs, inputs, done, placeholder, final_text,
                   tEph, res, ephDue, stamps, log>>

\* Ask as it would be without the try of line 218: an exception of ask()
\* leaves the handler.
AskUncaught(r) ==
    /\ pc[r] = "ask"
    /\ \E raised \in BOOLEAN :
          /\ final_text' = [final_text EXCEPT ![r] = IF raised THEN "none" ELSE "answer"]
          /\ pc' = [pc EXCEPT ![r] = IF raised THEN "raised" ELSE "set_done"]
    /\ resolveTime' = [resolveTime EXCEPT ![r] = clock]
    /\ UNCHANGED <<clock, config, msgs, inputs, done, placeholder, timers,
                   doneTime, runs, ts_read, log>>

\* Ask as it would be if the delivery of lines 227-240 came before line
\* 225: the handler goes on to read the placeholder location.
AskThenDeliver(r) ==
    /\ pc[r] = "ask"
    /\ \E raised \in BOOLEAN :
          final_text' = [final_text EXCEPT ![r] = IF raised THEN "apology" ELSE "answer"]
    /\ resolveTime' = [resolveTime EXCEPT ![r] = clock]
    /\ pc' = [pc EXCEPT ![r] = "read"]
    /\ UNCHANGED <<clock, config, msgs, inputs, done, placeholder, timers,
                   doneTime, runs, ts_read, log>>

\* Lines 218-223: ask(text) returns an answer or raises; an exception is
\* replaced by the fixed apology.
Ask(r) ==
    /\ pc[r] = "ask"
    /\ \E raised \in BOOLEAN :
          final_text' = [final_text EXCEPT ![r] = IF raised THEN "apology" ELSE "answer"]
    /\ resolveTime' = [resolveTime EXCEPT ![r] = clock]
    /\ pc' = [pc EXCEPT ![r] = "set_done"]
    /\ UNCHANGED <<clock, config, msgs, inputs, done, placeholder, timers,
                   doneTime, runs, ts_read, log>>

\* SetDone as it would be if line 225 wrote False.
SetDoneCleared(r) ==
    /\ pc[r] = "set_done"
    /\ done' = [done EXCEPT ![r] = FALSE]
    /\ doneTime' = [doneTime EXCEPT ![r] = clock]
    /\ runs' = [runs EXCEPT ![r] = @ + 1]
    /\ pc' = [pc EXCEPT ![r] = "read"]
    /\ UNCHANGED <<clock, config, msgs, inputs, placeholder, final_text, timers,
                   resolveTime, ts_read, log>>

\* SetDone as it would be if done were one cell shared by all handler
\* invocations (a module-level dict) instead of the closure cell of line
\* 186.
SetDoneShared(r) ==
    /\ pc[r] = "set_done"
    /\ done' = [q \in Reqs |-> TRUE]
    /\ doneTime' = [doneTime EXCEPT ![r] = clock]
    /\ runs' = [runs EXCEPT ![r] = @ + 1]
    /\ pc' = [pc EXCEPT ![r] = "read"]
    /\ UNCHANGED <<clock, config, msgs, inputs, placeholder, final_text, timers,
                   resolveTime, ts_read, log>>

\* Line 225: done["flag"] = True
SetDone(r) ==
    /\ pc[r] = "set_done"
    /\ done' = [done EXCEPT ![r] = TRUE]
    /\ doneTime' = [doneTime EXCEPT ![r] = clock]
    /\ runs' = [runs EXCEPT ![r] = @ + 1]
    /\ pc' = [pc EXCEPT ![r] = "read"]
    /\ UNCHANGED <<clock, config, msgs, inputs, placeholder, final_text, timers,
                   resolveTime, ts_read, log>>

\* Line 228: if placeholder["ts"]
ReadPlaceholder(r) ==
    /\ pc[r] = "read"
    /\ ts_read' = [ts_read EXCEPT ![r] = placeholder[r]]
    /\ pc' = [pc EXCEPT ![r] = IF placeholder[r] # 0 THEN "update" ELSE "post"]
    /\ UNCHANGED <<clock, config, msgs, inputs, done, placeholder, final_text,
                   timers, resolveTime, doneTime, runs, log>>

\* Update as it would be if a successful chat_update fell through to the
\* post of line 238.
UpdateThenPost(r) ==
    /\ pc[r] = "update"
    /\ \E ok \in Outcomes(r) :
          /\ msgs' = IF ok
                        THEN [msgs EXCEPT ![placeholder[r]].text = final_text[r]]
                        ELSE msgs
          /\ log' = [log EXCEPT ![r] = Append(@, Call("update", ok))]
    /\ pc' = [pc EXCEPT ![r] = "fallback"]
    /\ UNCHANGED <<clock, config, inputs, done, placeholder, final_text, timers, stamps>>

\* Update as it would be if a failed chat_update were only logged.
UpdateNoFallback(r) ==
    /\ pc[r] = "update"
    /\ \E ok \in Outcomes(r) :
          /\ msgs' = IF ok
                        THEN [msgs EXCEPT ![placeholder[r]].text = final_text[r]]
                        ELSE msgs
          /\ log' = [log EXCEPT ![r] = Append(@, Call("update", ok))]
    /\ pc' = [pc EXCEPT ![r] = "returned"]
    /\ UNCHANGED <<clock, config, inputs, done, placeholder, final_text, timers, stamps>>

\* Line 229: client.chat_update(channel, ts=placeholder["ts"], text=final_text);
\* an exception enters the handler of line 235.
Update(r) ==
    /\ pc[r] = "update"
    /\ \E ok \in Outcomes(r) :
          /\ msgs' = IF ok
                        THEN [msgs EXCEPT ![placeholder[r]].text = final_text[r]]
                        ELSE msgs
          /\ log' = [log EXCEPT ![r] = Append(@, Call("update", ok))]
          /\ pc' = [pc EXCEPT ![r] = IF ok THEN "returned" ELSE "fallback"]
    /\ UNCHANGED <<clock, config, inputs, done, placeholder, final_text, timers, stamps>>

\* Post as it would be if the post of line 238 ran after a successful post
\* as well (a finally in place of the except).
PostThenFallback(r) ==
    /\ pc[r] = "post"
    /\ \E ok \in Outcomes(r) :
          /\ msgs' = IF ok THEN Append(msgs, Msg(r, r, final_text[r])) ELSE msgs
          /\ log' = [log EXCEPT ![r] = Append(@, Call("post", ok))]
    /\ pc' = [pc EXCEPT ![r] = "fallback"]
    /\ UNCHANGED <<clock, config, inputs, done, placeholder, final_text, timers, stamps>>

\* Line 233: say(channel, thread_ts=thread_ts_mention, text=final_text);
\* an exception enters the same handler of line 235.
Post(r) ==
    /\ pc[r] = "post"
    /\ \E ok \in Outcomes(r) :
          /\ msgs' = IF ok THEN Append(msgs, Msg(r, r, final_text[r])) ELSE msgs
          /\ log' = [log EXCEPT ![r] = Append(@, Call("post", ok))]
          /\ pc' = [pc EXCEPT ![r] = IF ok THEN "returned" ELSE "fallback"]
    /\ UNCHANGED <<clock, config, inputs, done, placeholder, final_text, timers, stamps>>

\* Fallback as it would be if a failed fallback post were tried again.
FallbackRetry(r) ==
    /\ pc[r] = "fallback"
    /\ \E ok \in Outcomes(r) :
          /\ msgs' = IF ok THEN Append(msgs, Msg(r, r, final_text[r])) ELSE msgs
          /\ log' = [log EXCEPT ![r] = Append(@, Call("fallback", ok))]
          /\ pc' = [pc EXCEPT ![r] = IF ok THEN "returned" ELSE "fallback"]
    /\ UNCHANGED <<clock, config, inputs, done, placeholder, final_text, timers, stamps>>

\* Fallback as it would be without the try of line 237: an exception of
\* the last post leaves the handler.
FallbackUncaught(r) ==
    /\ pc[r] = "fallback"
    /\ \E ok \in Outcomes(r) :
          /\ msgs' = IF ok THEN Append(msgs, Msg(r, r, final_text[r])) ELSE msgs
          /\ log' = [log EXCEPT ![r] = Append(@, Call("fallback", ok))]
          /\ pc' = [pc EXCEPT ![r] = IF ok THEN "returned" ELSE "raised"]
    /\ UNCHANGED <<clock, config, inputs, done, placeholder, final_text, timers, stamps>>

\* Lines 236-240: the handler posts the final text once more; a failure
\* of that post is logged and the function returns.
Fallback(r) ==
    /\ pc[r] = "fallback"
    /\ \E ok \in Outcomes(r) :
          /\ msgs' = IF ok THEN Append(msgs, Msg(r, r, final_text[r])) ELSE msgs
          /\ log' = [log EXCEPT ![r] = Append(@, Call("fallback", ok))]
    /\ pc' = [pc EXCEPT ![r] = "returned"]
    /\ UNCHANGED <<clock, config, inputs, done, placeholder, final_text, timers, stamps>>

\* ---------------------------------------------------------- timer threads
\* FireEphemeral as it would be without the test of done["flag"].
FireEphemeralUnchecked(r) ==
    /\ tEph[r] = "waiting"
    /\ clock >= ephDue[r]
    /\ tEph' = [tEph EXCEPT ![r] = IF channel[r] /\ user[r] THEN "calling" ELSE "finished"]
    /\ UNCHANGED <<clock, config, msgs, inputs, pc, done, placeholder, final_text,
                   tPh, res, ephDue, phDue, stamps, log>>

\* Line 190, run once the timer's delay has elapsed: the guard of
\* send_ephemeral.
FireEphemeral(r) ==
    /\ tEph[r] = "waiting"
    /\ clock >= ephDue[r]
    /\ tEph' = [tEph EXCEPT ![r] =
                  IF ~done[r] /\ channel[r] /\ user[r] THEN "calling" ELSE "finished"]
    /\ UNCHANGED <<clock, config, msgs, inputs, pc, done, placeholder, final_text,
                   tPh, res, ephDue, phDue, stamps, log>>

\* CallEphemeral as it would be with a repeating timer: after the call the
\* callback waits for its next firing.
CallEphemeralRepeating(r) ==
    /\ tEph[r] = "calling"
    /\ \E ok \in Outcomes(r) :
          log' = [log EXCEPT ![r] = Append(@, Call("ephemeral", ok))]
    /\ tEph' = [tEph EXCEPT ![r] = IF Len(log[r]) < 4 THEN "waiting" ELSE "finished"]
    /\ UNCHANGED <<clock, config, msgs, inputs, pc, done, placeholder, final_text,
                   tPh, res, ephDue, phDue, stamps>>

\* Lines 191-199: client.chat_postEphemeral; a failure is logged.
CallEphemeral(r) ==
    /\ tEph[r] = "calling"
    /\ \E ok \in Outcomes(r) :
          log' = [log EXCEPT ![r] = Append(@, Call("ephemeral", ok))]
    /\ tEph' = [tEph EXCEPT ![r] = "finished"]
    /\ UNCHANGED <<clock, config, msgs, inputs, pc, done, placeholder, final_text,
                   tPh, res, ephDue, phDue, stamps>>

\* FirePlaceholder as it would be without the test of done["flag"].
FirePlaceholderUnchecked(r) ==
    /\ tPh[r] = "waiting"
    /\ clock >= phDue[r]
    /\ tPh' = [tPh EXCEPT ![r] = IF channel[r] /\ user[r] THEN "calling" ELSE "finished"]
    /\ UNCHANGED <<clock, config, msgs, inputs, pc, done, placeholder, final_text,
                   tEph, res, ephDue, phDue, stamps, log>>

\* Line 202, run once the timer's delay has elapsed: the guard of
\* send_placeholder.
FirePlaceholder(r) ==
    /\ tPh[r] = "waiting"
    /\ clock >= phDue[r]
    /\ tPh' = [tPh EXCEPT ![r] =
                 IF ~done[r] /\ channel[r] /\ user[r] THEN "calling" ELSE "finished"]
    /\ UNCHANGED <<clock, config, msgs, inputs, pc, done, placeholder, final_text,
                   tEph, res, ephDue, phDue, stamps, log>>

\* CallPlaceholder as it would be if line 209 ran after a failed say as
\* well, and recorded the ts the message would have had.
CallPlaceholderRecordsFailure(r) ==
    /\ tPh[r] = "calling"
    /\ \E ok \in Outcomes(r) :
          /\ msgs' = IF ok THEN Append(msgs, Msg(r, r, "thinking")) ELSE msgs
          /\ log' = [log EXCEPT ![r] = Append(@, Call("placeholder", ok))]
    /\ res' = [res EXCEPT ![r] = Len(msgs) + 1]
    /\ tPh' = [tPh EXCEPT ![r] = "write"]
    /\ UNCHANGED <<clock, config, inputs, pc, done, placeholder, final_text,
                   tEph, ephDue, phDue, stamps>>

\* Lines 204-208: say(...) posts the "thinking" message in the thread; the
\* message is in the channel before the call returns.  A failure is logged
\* (lines 211-212) and the callback ends.
CallPlaceholder(r) ==
    /\ tPh[r] = "calling"
    /\ \E ok \in Outcomes(r) :
          /\ msgs' = IF ok THEN Append(msgs, Msg(r, r, "thinking")) ELSE msgs
          /\ log' = [log EXCEPT ![r] = Append(@, Call("placeholder", ok))]
          /\ res' = [res EXCEPT ![r] = IF ok THEN Len(msgs) + 1 ELSE 0]
          /\ tPh' = [tPh EXCEPT ![r] = IF ok THEN "write" ELSE "finished"]
    /\ UNCHANGED <<clock, config, inputs, pc, done, placeholder, final_text,
                   tEph, ephDue, phDue, stamps>>

\* Line 209: placeholder["ts"] = res["ts"]
WritePlaceholder(r) ==
    /\ tPh[r] = "write"
    /\ placeholder' = [placeholder EXCEPT ![r] = res[r]]
    /\ tPh' = [tPh EXCEPT ![r] = "finished"]
    /\ UNCHANGED <<clock, config, msgs, inputs, pc, done, final_text,
                   tEph, res, ephDue, phDue, stamps, log>>

\* ------------------------------------------------------------------ time
\* A second passes.  Lines 167-216 of a handler run within one tick, so that
\* both timers of a request are started at the same time; the clock stops
\* at MaxTime.
Tick ==
    /\ clock < MaxTime
    /\ \A r \in Reqs : pc[r] \notin {"recv", "smalltalk", "start_eph", "start_ph"}
    /\ clock' = clock + 1
    /\ UNCHANGED <<config, msgs, inputs, pc, done, placeholder, final_text,
                   timers, stamps, log>>

Next ==
    \/ Tick
    \/ \E r \in Reqs :
          \/ Receive(r)
          \/ SmalltalkSay(r)
          \/ StartEphemeralTimer(r)
          \/ StartPlaceholderTimer(r)
          \/ Ask(r)
          \/ SetDone(r)
          \/ ReadPlaceholder(r)
          \/ Update(r)
          \/ Post(r)
          \/ Fallback(r)
          \/ FireEphemeral(r)
          \/ CallEphemeral(r)
          \/ FirePlaceholder(r)
          \/ CallPlaceholder(r)
          \/ WritePlaceholder(r)

Spec == Init /\ [][Next]_vars

\* The threads of one request: the handler (lines 167-240) and the two
\* threading.Timer threads of lines 215-216.
HandlerStep(r) ==
    \/ Receive(r) \/ SmalltalkSay(r)
    \/ StartEphemeralTimer(r) \/ StartPlaceholderTimer(r)
    \/ Ask(r) \/ SetDone(r) \/ ReadPlaceholder(r)
    \/ Update(r) \/ Post(r) \/ Fallback(r)

EphemeralStep(r) == FireEphemeral(r) \/ CallEphemeral(r)

PlaceholderStep(r) == FirePlaceholder(r) \/ CallPlaceholder(r) \/ WritePlaceholder(r)

\* Every thread that can take a step is scheduled in the end, every call
\* it makes (ask included) returns or raises, and time passes.
Fairness ==
    /\ WF_vars(Tick)
    /\ \A r \in Reqs :
          /\ WF_vars(HandlerStep(r))
          /\ WF_vars(EphemeralStep(r))
          /\ WF_vars(PlaceholderStep(r))

\* One mention event under the delays of lines 21-22.
InitFair ==
    /\ Init
    /\ ephDelay = EPHEMERAL_DELAY_SEC
    /\ phDelay = PLACEHOLDER_DELAY_SEC

SpecFair == InitFair /\ [][Next]_vars /\ Fairness

\* Two mention events are handled at the same time, each by its own call of
\* handle_mention with its own done and placeholder (lines 186-187); both
\* carry channel and user, and the timers are due as soon as started.
InitMulti ==
    /\ InitOf({1, 2})
    /\ ephDelay = 0 /\ phDelay = 0
    /\ \A r \in Reqs : channel[r] /\ user[r]
    /\ \A r \in Reqs : text[r] \in {"hello", "how do i reset my password"}

NextMulti ==
    \E r \in Reqs : HandlerStep(r) \/ EphemeralStep(r) \/ PlaceholderStep(r)

SpecMulti == InitMulti /\ [][NextMulti]_vars

\* Lines 225-240 entered once more on the same closure cells done and
\* placeholder, after they ran to their end: the duplicate run of the
\* Finalizer.  The lines test nothing before they write the flag and
\* deliver.
Reenter(r) ==
    /\ pc[r] = "returned"
    /\ done[r]
    /\ runs[r] < MaxRuns
    /\ pc' = [pc EXCEPT ![r] = "set_done"]
    /\ UNCHANGED <<clock, config, msgs, inputs, done, placeholder, final_text,
                   timers, stamps, log>>

NextReentry == Next \/ \E r \in Reqs : Reenter(r)

SpecReentry == Init /\ [][NextReentry]_vars

\* ------------------------------------------------------- what is observed
FinalTexts == {"answer", "apology"}
TimerOps == {"ephemeral", "placeholder"}
FinalizerOps == {"update", "post", "fallback"}

\* The request takes the long-running flow (lines 185-240).
LongFlow(r) == pc[r] # "idle" /\ ~(smalltalk_reply(text[r]) # "" /\ channel[r] /\ user[r])

\* The handler of the request returned.
Returned(r) == pc[r] = "returned"

\* The handler returned and both timer callbacks ran to their end.
AllDone(r) == Returned(r) /\ tEph[r] = "finished" /\ tPh[r] = "finished"

\* The public messages that carry the final text of the request.
FinalMsgs(r) == {i \in 1..Len(msgs) : msgs[i].req = r /\ msgs[i].text \in FinalTexts}
Delivered(r) == Cardinality(FinalMsgs(r))

\* The calls of one kind, and the successful ones, in the request's log.
CallsOf(r, ops) == {i \in 1..Len(log[r]) : log[r][i].op \in ops}
OkCallsOf(r, ops) == {i \in CallsOf(r, ops) : log[r][i].ok}
FailedCallsOf(r, ops) == {i \in CallsOf(r, ops) : ~log[r][i].ok}

\* The Finalizer's calls, in order.
IsFinalizerCall(c) == c.op \in FinalizerOps
Deliveries(r) == SelectSeq(log[r], IsFinalizerCall)

\* A call was appended to the log of r in this step.
NewCall(r) == Len(log'[r]) = Len(log[r]) + 1
TheNewCall(r) == log'[r][Len(log'[r])]

\* ------------------------------------------------------------------- C1
\* C1 as stated: when the handler of a long-running request has returned,
\* the final text was delivered exactly once, unless every transport call
\* of the request failed; stated for the requests whose placeholder was
\* posted and recorded before the Finalizer read its location.
C1_ExactlyOnceUnlessAllCallsFail ==
    \A r \in Reqs :
        (LongFlow(r) /\ Returned(r) /\ ts_read[r] > 0) =>
            \/ Delivered(r) = 1
            \/ \A i \in 1..Len(log[r]) : ~log[r][i].ok

\* C1, amended: the final text of a request is never delivered more than
\* once, and when the handler has returned it is delivered exactly once
\* if one of the Finalizer's calls (update, post, fallback post) succeeded,
\* and not at all only after two failed Finalizer calls; calls of the timer
\* callbacks do not count.
C1_ExactlyOnceUnlessDeliveryCallsFail ==
    \A r \in Reqs :
        /\ Delivered(r) <= 1
        /\ (LongFlow(r) /\ Returned(r)) =>
              IF OkCallsOf(r, FinalizerOps) # {}
                 THEN Delivered(r) = 1
                 ELSE Delivered(r) = 0 /\ Len(Deliveries(r)) = 2

\* A request whose update failed and whose fallback post delivered.
C1_Witness ==
    \E r \in Reqs :
        /\ LongFlow(r) /\ Returned(r)
        /\ FailedCallsOf(r, {"update"}) # {}
        /\ OkCallsOf(r, {"fallback"}) # {}
        /\ Delivered(r) = 1

\* ------------------------------------------------------------------- C2
\* C2: no private notice and no placeholder is emitted in a state in which
\* completed (done["flag"]) is already true.
C2_NoTimerEmissionOnceCompleted ==
    [][\A r \in Reqs :
          (NewCall(r) /\ TheNewCall(r).op \in TimerOps /\ TheNewCall(r).ok)
              => ~done[r]]_vars

\* ------------------------------------------------------------------- C3
\* The event names its channel and its user, and no transport call of the
\* request has failed.
Untroubled(r) ==
    channel[r] /\ user[r] /\ FailedCallsOf(r, TimerOps \cup FinalizerOps) = {}

\* The public messages posted for the request.
PublicMsgs(r) == {i \in 1..Len(msgs) : msgs[i].req = r}

\* The answer resolved after the placeholder delay had elapsed and before
\* the private-notice delay elapsed.
ResolvedBetween(r) == phDue[r] < resolveTime[r] /\ resolveTime[r] < ephDue[r]

\* C3 as stated: in a request whose answer resolves after the placeholder
\* delay and before the private-notice delay, no private notice is sent
\* and the placeholder is updated in place with the final text, with no
\* second public message; stated for the requests whose handler has
\* returned, whose placeholder was posted and no transport call of which
\* fails.
C3_OnlyPlaceholderThenUpdate ==
    \A r \in Reqs :
        (/\ LongFlow(r) /\ Returned(r) /\ ResolvedBetween(r)
         /\ Untroubled(r) /\ OkCallsOf(r, {"placeholder"}) # {}) =>
            /\ OkCallsOf(r, {"ephemeral"}) = {}
            /\ OkCallsOf(r, {"update"}) # {}
            /\ CallsOf(r, {"post", "fallback"}) = {}
            /\ Cardinality(PublicMsgs(r)) = 1

\* ------------------------------------------------------------------- C4
\* The answer resolved before either delay elapsed.
ResolvedEarly(r) == resolveTime[r] < ephDue[r] /\ resolveTime[r] < phDue[r]

\* completed was set before either delay elapsed.
CompletedEarly(r) == done[r] /\ doneTime[r] < ephDue[r] /\ doneTime[r] < phDue[r]

\* The fresh posts of the final text in the request's thread.
FreshFinal(r) == {i \in FinalMsgs(r) : msgs[i].thread = r /\ i # placeholder[r]}

\* C4 as stated: in a request whose answer resolves before either delay
\* elapses, no private notice and no placeholder is ever sent, and when
\* the handler has returned exactly one fresh final message is posted;
\* stated for the requests no transport call of which fails.
C4_EarlyAnswerOneFreshPost ==
    \A r \in Reqs :
        (LongFlow(r) /\ final_text[r] # "none" /\ ResolvedEarly(r) /\ Untroubled(r)) =>
            /\ OkCallsOf(r, TimerOps) = {}
            /\ Returned(r) => Cardinality(FreshFinal(r)) = 1

\* C4, amended: in a request whose completed flag is set before either
\* delay elapses, neither timer callback ever makes a transport call, no
\* location is recorded and no update is attempted, and the final text is
\* posted afresh in the thread exactly once, unless the post and its one
\* fallback both fail.
C4_EarlyCompletionOneFreshPost ==
    \A r \in Reqs :
        (LongFlow(r) /\ CompletedEarly(r)) =>
            /\ CallsOf(r, TimerOps) = {}
            /\ placeholder[r] = 0
            /\ CallsOf(r, {"update"}) = {}
            /\ Returned(r) =>
                  \/ Deliveries(r) = <<Call("post", TRUE)>>
                        /\ Cardinality(FreshFinal(r)) = 1
                  \/ Deliveries(r) = <<Call("post", FALSE), Call("fallback", TRUE)>>
                        /\ Cardinality(FreshFinal(r)) = 1
                  \/ Deliveries(r) = <<Call("post", FALSE), Call("fallback", FALSE)>>
                        /\ PublicMsgs(r) = {}

\* Both timers fired after the early completion, and found nothing to do.
C4_Witness ==
    \E r \in Reqs :
        /\ LongFlow(r) /\ AllDone(r) /\ CompletedEarly(r)
        /\ channel[r] /\ user[r]
        /\ clock >= ephDue[r] /\ clock >= phDue[r]
        /\ Deliveries(r) = <<Call("post", TRUE)>>

\* ------------------------------------------------------------------- C5
\* C5: when the handler has returned and the placeholder callback has
\* ended, a placeholder that was posted has at least been the target of
\* an update attempt: the final text is not posted afresh next to a
\* placeholder nobody tried to replace.
C5_PostedPlaceholderIsUpdated ==
    \A r \in Reqs :
        (LongFlow(r) /\ Returned(r) /\ tPh[r] = "finished"
           /\ OkCallsOf(r, {"placeholder"}) # {}) =>
            CallsOf(r, {"update"}) # {}

\* ------------------------------------------------------------------- C6
\* C6: the placeholder location is written at most once, and only while
\* completed is false and the Finalizer has not read the location.
C6_LocationWrittenBeforeCompletion ==
    [][\A r \in Reqs :
          placeholder'[r] # placeholder[r] =>
              placeholder[r] = 0 /\ ~done[r] /\ ts_read[r] = -1]_vars

\* ------------------------------------------------------------------- C7
\* Both timers were started with delay 0 and the answer resolved in the
\* tick in which they were started.
RaceScenario(r) ==
    /\ LongFlow(r) /\ final_text[r] # "none"
    /\ ephDelay = 0 /\ phDelay = 0
    /\ resolveTime[r] = ephDue[r] /\ resolveTime[r] = phDue[r]

\* C7: in the race scenario a request never has both its placeholder
\* updated with the final text and a fresh post of the final text: at most
\* one message carries the final text, and exactly one when the handler
\* has returned and no call of the Finalizer failed.
C7_RaceOneTerminalMessage ==
    \A r \in Reqs :
        RaceScenario(r) =>
            /\ ~(OkCallsOf(r, {"update"}) # {} /\ OkCallsOf(r, {"post", "fallback"}) # {})
            /\ Delivered(r) <= 1
            /\ (Returned(r) /\ FailedCallsOf(r, FinalizerOps) = {}) => Delivered(r) = 1

\* The race scenario in which both callbacks acted within the tick and the
\* placeholder was updated.
C7_Witness ==
    \E r \in Reqs :
        /\ RaceScenario(r) /\ AllDone(r) /\ clock = resolveTime[r]
        /\ OkCallsOf(r, {"ephemeral"}) # {}
        /\ OkCallsOf(r, {"placeholder"}) # {}
        /\ OkCallsOf(r, {"update"}) # {}
        /\ Delivered(r) = 1

\* ------------------------------------------------------------------- C8
\* C8: completed never goes from true to false, line 225 runs once, and
\* when the handler of a long-running request has returned completed is
\* true: it went from false to true exactly once.
C8_CompletedSetOnceForGood ==
    /\ [][\A r \in Reqs :
             /\ done[r] => done'[r]
             /\ done'[r] # done[r] => runs'[r] = 1]_vars
    /\ [](\A r \in Reqs :
             /\ runs[r] <= 1
             /\ (LongFlow(r) /\ Returned(r)) => (done[r] /\ runs[r] = 1))

\* A request all threads of which have ended, completed.
C8_Witness ==
    \E r \in Reqs :
        LongFlow(r) /\ AllDone(r) /\ done[r] /\ clock >= ephDue[r] /\ ephDelay > 0

\* ------------------------------------------------------------------- C9
\* C9: a second run of the Finalizer on the same delivery state makes no
\* delivery call: no update and no fresh post; stated for the events that
\* name their channel and their user.
C9_SecondFinalizerRunDeliversNothing ==
    [][\A r \in Reqs :
          (channel[r] /\ user[r] /\ runs[r] >= 2 /\ NewCall(r))
              => TheNewCall(r).op \notin FinalizerOps]_vars

C11_FailedUpdateFallsBackOnce ==
    \A r \in Reqs :
        ts_read[r] > 0 =>
            /\ msgs[ts_read[r]].req = r /\ msgs[ts_read[r]].thread = r
            /\ CallsOf(r, {"post"}) = {}
            /\ \/ Deliveries(r) = <<>> /\ pc[r] = "update"
               \/ /\ Deliveries(r) = <<Call("update", TRUE)>>
                  /\ Returned(r)
                  /\ msgs[ts_read[r]].text = final_text[r]
                  /\ FreshFinal(r) = {}
               \/ /\ Deliveries(r) = <<Call("update", FALSE)>>
                  /\ pc[r] = "fallback"
               \/ /\ Deliveries(r) = <<Call("update", FALSE), Call("fallback", TRUE)>>
                  /\ Returned(r)
                  /\ Cardinality(FreshFinal(r)) = 1
                  /\ msgs[ts_read[r]].text = "thinking"
               \/ /\ Deliveries(r) = <<Call("update", FALSE), Call("fallback", FALSE)>>
                  /\ Returned(r)
                  /\ FinalMsgs(r) = {}

\* A failed update followed by the successful fallback post.
C11_Witness ==
    \E r \in Reqs :
        /\ ts_read[r] > 0 /\ Returned(r)
        /\ Deliveries(r) = <<Call("update", FALSE), Call("fallback", TRUE)>>
        /\ \E i \in FreshFinal(r) : msgs[i].thread = msgs[ts_read[r]].thread

\* ------------------------------------------------------------------ C12
\* The positions of a handler thread inside handle_mention; a thread an
\* exception has left the function of is at none of them.
HandlerPcs ==
    {"idle", "recv", "smalltalk", "start_eph", "start_ph", "ask", "set_done",
     "read", "update", "post", "fallback", "returned"}

\* C12 as stated: when ask() failed and the handler has returned, the
\* apology was delivered exactly once, unless every transport call of the
\* request failed; stated for the requests whose placeholder was posted
\* and recorded before the Finalizer read its location.
C12_ApologyExactlyOnceUnlessAllCallsFail ==
    \A r \in Reqs :
        (final_text[r] = "apology" /\ Returned(r) /\ ts_read[r] > 0) =>
            \/ Cardinality({i \in PublicMsgs(r) : msgs[i].text = "apology"}) = 1
            \/ \A i \in 1..Len(log[r]) : ~log[r][i].ok

\* C12, amended: a failure of ask() never leaves the handler; the final
\* text is then the apology and the Finalizer runs as for an answer:
\* completed is set once, the first delivery call is the update of a
\* recorded placeholder and otherwise a fresh post, no message of the
\* request carries an answer, and when the handler has returned the
\* apology is delivered exactly once if one of the Finalizer's calls
\* succeeded and not at all only after two failed Finalizer calls.
C12_ApologyThroughFinalizer ==
    \A r \in Reqs :
        /\ pc[r] \in HandlerPcs
        /\ (LongFlow(r) /\ Returned(r)) => final_text[r] \in FinalTexts
        /\ final_text[r] = "apology" =>
              /\ \A i \in PublicMsgs(r) : msgs[i].text \in {"thinking", "apology"}
              /\ Delivered(r) <= 1
              /\ Deliveries(r) # <<>> =>
                    /\ done[r]
                    /\ Deliveries(r)[1].op = (IF ts_read[r] > 0 THEN "update" ELSE "post")
              /\ Returned(r) =>
                    /\ done[r] /\ runs[r] = 1
                    /\ IF OkCallsOf(r, FinalizerOps) # {}
                          THEN Delivered(r) = 1
                          ELSE Delivered(r) = 0 /\ Len(Deliveries(r)) = 2

\* The apology put in place of a recorded placeholder.
C12_Witness ==
    \E r \in Reqs :
        /\ final_text[r] = "apology" /\ Returned(r)
        /\ ts_read[r] > 0
        /\ msgs[ts_read[r]].text = "apology"

\* ------------------------------------------------------------------ C13
\* C13: when the placeholder post failed, the placeholder location stays
\* unset, the Finalizer reads it as unset and never attempts an update,
\* and its first call is the fresh post in the thread.
C13_FailedPlaceholderMeansNone ==
    \A r \in Reqs :
        FailedCallsOf(r, {"placeholder"}) # {} =>
            /\ tPh[r] = "finished"
            /\ placeholder[r] = 0 /\ res[r] = 0
            /\ ts_read[r] \in {-1, 0}
            /\ CallsOf(r, {"update"}) = {}
            /\ \A i \in PublicMsgs(r) : msgs[i].text # "thinking"
            /\ Deliveries(r) # <<>> => Deliveries(r)[1].op = "post"
            /\ Returned(r) =>
                  /\ Deliveries(r) # <<>>
                  /\ Deliveries(r)[1].ok =>
                        Cardinality(FreshFinal(r)) = 1 /\ PublicMsgs(r) = FreshFinal(r)

\* The placeholder post failed before the Finalizer ran, and the final text
\* was posted afresh.
C13_Witness ==
    \E r \in Reqs :
        /\ Returned(r) /\ channel[r] /\ user[r]
        /\ log[r] = <<Call("placeholder", FALSE), Call("post", TRUE)>>
        /\ \E i \in FreshFinal(r) : msgs[i].thread = r

\* ------------------------------------------------------------------ C14
\* The request is FINALIZED: the flag is set and lines 227-240 have made
\* their delivery attempts and returned.
Finalized(r) == Returned(r) /\ done[r] /\ runs[r] = 1 /\ Deliveries(r) # <<>>

\* C14: no exception leaves the handler, and every request of the
\* long-running flow is FINALIZED in the end and stays so, whichever of the
\* private notice, the placeholder post, the update and the fresh posts
\* fail.
C14_EveryRequestFinalized ==
    /\ [](\A r \in Reqs : pc[r] \in HandlerPcs)
    /\ \A r \in Reqs : (LongFlow(r) ~> [](Finalized(r) /\ tEph[r] = "finished" /\ tPh[r] = "finished"))

\* A request is FINALIZED although every transport call it made failed.
C14_Witness ==
    \E r \in Reqs :
        /\ Finalized(r) /\ channel[r] /\ user[r]
        /\ CallsOf(r, {"ephemeral"}) # {} /\ CallsOf(r, {"placeholder"}) # {}
        /\ Len(Deliveries(r)) = 2
        /\ OkCallsOf(r, TimerOps \cup FinalizerOps) = {}

\* ------------------------------------------------------------------ C15
\* The "thinking" messages of request r in the channel.
Placeholders(r) == {i \in 1..Len(msgs) : msgs[i].req = r /\ msgs[i].text = "thinking"}

\* C15: a request makes at most one private-notice call and at most one
\* placeholder post, so at most one "thinking" message is in its thread,
\* at every point of the run, the time after the handler returned included.
C15_AtMostOneNoticeAndPlaceholder ==
    \A r \in Reqs :
        /\ Cardinality(CallsOf(r, {"ephemeral"})) <= 1
        /\ Cardinality(CallsOf(r, {"placeholder"})) <= 1
        /\ Cardinality(Placeholders(r)) <= 1
        /\ Cardinality(Placeholders(r)) <= Cardinality(OkCallsOf(r, {"placeholder"}))

\* Both timers have fired and ended, the handler has returned, and the
\* request sent its one private notice and posted its one placeholder.
C15_Witness ==
    \E r \in Reqs :
        /\ AllDone(r) /\ done[r] /\ clock = MaxTime
        /\ Cardinality(OkCallsOf(r, {"ephemeral"})) = 1
        /\ Cardinality(OkCallsOf(r, {"placeholder"})) = 1

\* ------------------------------------------------------------------ C16
\* C16: once a request is FINALIZED nothing of it changes again: no
\* private notice is sent and no placeholder is posted for it, no message
\* of it appears, and its flag and placeholder location keep their values.
C16_NoTransitionAfterFinalized ==
    [][\A r \in Reqs :
          Finalized(r) =>
              /\ OkCallsOf(r, TimerOps)' = OkCallsOf(r, TimerOps)
              /\ PublicMsgs(r)' = PublicMsgs(r)
              /\ done'[r] = done[r]
              /\ placeholder'[r] = placeholder[r]]_vars

\* ------------------------------------------------------------------ C17
\* A callback in state st begins to run in this step (it leaves "waiting").
Begins(st, r) == st[r] = "waiting" /\ st'[r] # "waiting"

\* The step makes no transport call and writes neither cell of request r.
NoEffect(r) ==
    /\ log'[r] = log[r] /\ msgs' = msgs
    /\ done'[r] = done[r] /\ placeholder'[r] = placeholder[r] /\ res'[r] = res[r]

\* C17: a timer callback that begins to run while completed is true ends
\* at once: it makes no transport call and leaves the flag and the
\* placeholder location as they are.  (A call of a callback is made only
\* from its "calling" state and the location is written only from "write",
\* which an ended callback never enters.)
C17_CallbackAfterCompletionIsNoOp ==
    [][\A r \in Reqs :
          /\ (done[r] /\ Begins(tEph, r)) => tEph'[r] = "finished" /\ NoEffect(r)
          /\ (done[r] /\ Begins(tPh, r)) => tPh'[r] = "finished" /\ NoEffect(r)
          /\ tEph[r] = "finished" => tEph'[r] = "finished"
          /\ tPh[r] = "finished" => tPh'[r] = "finished"
          /\ (NewCall(r) /\ TheNewCall(r).op = "ephemeral") => tEph[r] = "calling"
          /\ (NewCall(r) /\ TheNewCall(r).op = "placeholder") => tPh[r] = "calling"
          /\ placeholder'[r] # placeholder[r] => tPh[r] = "write"]_vars

\* Both callbacks of a request with channel and user began after the flag
\* was set, and ended without a call.
C17_Witness ==
    \E r \in Reqs :
        /\ channel[r] /\ user[r] /\ done[r]
        /\ doneTime[r] < phDue[r] /\ doneTime[r] < ephDue[r]
        /\ tEph[r] = "finished" /\ tPh[r] = "finished"
        /\ CallsOf(r, TimerOps) = {} /\ placeholder[r] = 0

\* ------------------------------------------------------------------ C18
\* The handler of request r is in the delivery of lines 227-240.
InDelivery(r) == pc[r] \in {"update", "post", "fallback"}

\* The step is one of the handler thread of request r: the timer threads
\* stay where they are.
HandlerMoves(r) == pc'[r] # pc[r] /\ tEph'[r] = tEph[r] /\ tPh'[r] = tPh[r]

\* C18: the flag is written only by line 225 of the handler, and always
\* to true; the final text reaches the channel only by the handler's
\* delivery calls; and the handler's read of the placeholder location and
\* each of its delivery calls is made with the flag already true.
C18_OnlyFinalizerCompletesAndDelivers ==
    [][\A r \in Reqs :
          /\ done'[r] # done[r] =>
                pc[r] = "set_done" /\ HandlerMoves(r) /\ done'[r]
          /\ ts_read'[r] # ts_read[r] =>
                pc[r] = "read" /\ HandlerMoves(r) /\ done[r] /\ runs[r] > 0
          /\ (NewCall(r) /\ TheNewCall(r).op \in FinalizerOps) =>
                InDelivery(r) /\ HandlerMoves(r) /\ done[r] /\ ts_read[r] >= 0
          /\ FinalMsgs(r)' # FinalMsgs(r) =>
                /\ NewCall(r) /\ TheNewCall(r).op \in FinalizerOps /\ TheNewCall(r).ok
                /\ InDelivery(r) /\ done[r]
          /\ (NewCall(r) /\ TheNewCall(r).op \in TimerOps) =>
                FinalMsgs(r)' = FinalMsgs(r) /\ pc'[r] = pc[r]]_vars

\* The handler set the flag, read a recorded location and delivered the
\* final text by its update, while a private notice had been sent too.
C18_Witness ==
    \E r \in Reqs :
        /\ Finalized(r) /\ ts_read[r] > 0
        /\ Deliveries(r) = <<Call("update", TRUE)>>
        /\ msgs[ts_read[r]].text = final_text[r]
        /\ OkCallsOf(r, {"ephemeral"}) # {}

\* ------------------------------------------------------------------ C19
\* The step is one of request r: its handler or one of its callbacks moves.
StepOf(r) == pc'[r] # pc[r] \/ tEph'[r] # tEph[r] \/ tPh'[r] # tPh[r]

\* The delivery state of request q and what was done for q stay as they are.
Untouched(q) ==
    /\ done'[q] = done[q] /\ placeholder'[q] = placeholder[q]
    /\ ts_read'[q] = ts_read[q] /\ res'[q] = res[q]
    /\ log'[q] = log[q] /\ final_text'[q] = final_text[q]
    /\ pc'[q] = pc[q] /\ tEph'[q] = tEph[q] /\ tPh'[q] = tPh[q]
    /\ \A i \in 1..Len(msgs) : msgs[i].req = q => msgs'[i] = msgs[i]

\* C19: with two requests in flight, a step of one request leaves the flag,
\* the placeholder location and the messages of the other untouched; a
\* callback of a request whose own flag is false makes its call whatever
\* the flag of the other; and the location a request records, reads and
\* updates is that of its own placeholder, which gets its own final text.
C19_DeliveryStatePrivate ==
    [][\A r \in Reqs :
          /\ StepOf(r) => \A q \in Reqs \ {r} : Untouched(q)
          /\ (Begins(tEph, r) /\ ~done[r]) => tEph'[r] = "calling"
          /\ (Begins(tPh, r) /\ ~done[r]) => tPh'[r] = "calling"
          /\ placeholder'[r] # 0 =>
                /\ msgs'[placeholder'[r]].req = r
                /\ msgs'[placeholder'[r]].thread = r
          /\ ts_read'[r] > 0 => ts_read'[r] = placeholder'[r]
          /\ (NewCall(r) /\ TheNewCall(r) = Call("update", TRUE)) =>
                msgs'[ts_read[r]] = Msg(r, r, final_text[r])]_vars

\* Two requests were in flight together; each posted its own placeholder
\* and got it updated with its own final text, an answer for one and the
\* apology for the other.
C19_Witness ==
    \E r \in Reqs : \E q \in Reqs \ {r} :
        /\ Finalized(r) /\ Finalized(q)
        /\ ts_read[r] > ts_read[q] /\ ts_read[q] > 0
        /\ final_text[r] = "apology" /\ final_text[q] = "answer"
        /\ msgs[ts_read[r]] = Msg(r, r, "apology")
        /\ msgs[ts_read[q]] = Msg(q, q, "answer")
        /\ OkCallsOf(r, {"ephemeral"}) # {} /\ OkCallsOf(q, {"ephemeral"}) = {}

\* ------------------------------------------------------------------ C20
\* The event of request r takes the smalltalk fast path (line 177).
FastPath(r) == pc[r] # "idle" /\ smalltalk_reply(text[r]) # "" /\ channel[r] /\ user[r]

\* C20: an event on the smalltalk fast path makes one post attempt, in the
\* channel and not in a thread, and returns, whether the post succeeds or
\* not: no timer is started, no delivery state is set up, ask is not
\* called, and no placeholder, private notice or final message is emitted.
C20_SmalltalkOnePostOnly ==
    \A r \in Reqs :
        FastPath(r) =>
            /\ pc[r] \in {"recv", "smalltalk", "returned"}
            /\ tEph[r] = "unarmed" /\ tPh[r] = "unarmed"
            /\ ~done[r] /\ placeholder[r] = 0 /\ runs[r] = 0 /\ ts_read[r] = -1
            /\ final_text[r] = "none"
            /\ CallsOf(r, TimerOps \cup FinalizerOps) = {}
            /\ Len(log[r]) = (IF Returned(r) THEN 1 ELSE 0)
            /\ \A i \in PublicMsgs(r) : msgs[i] = Msg(r, 0, "smalltalk")
            /\ Cardinality(PublicMsgs(r)) = Cardinality(OkCallsOf(r, {"smalltalk"}))

\* A smalltalk event whose one post failed: the handler returned and the
\* clock ran on with nothing else done for the event.
C20_Witness ==
    \E r \in Reqs :
        /\ FastPath(r) /\ Returned(r) /\ clock = MaxTime
        /\ log[r] = <<Call("smalltalk", FALSE)>>
        /\ PublicMsgs(r) = {}

====
